---- MODULE Spec2Model ----
(***************************************************************************)
(* A model of pkg/fqtest/fqtest.go: the transcript parser (SectionParser,  *)
(* parseCommand, parseInput, parseTestCases), the dialog simulator         *)
(* (testCaseRun.Readline, testCaseRun.Environ) and the golden rewriter     *)
(* (testCase.ToActual).                                                    *)
(*                                                                         *)
(* A Go string is a sequence of bytes; here it is a sequence of one-byte   *)
(* TLA+ strings, <<"f","o","\\","t">> for the four bytes  fo\t .  Bytes     *)
(* with no printable form are named ("\t", "\n", "\r", BS).                *)
(***************************************************************************)
EXTENDS Integers, Sequences, FiniteSets, TLC

VARIABLES
    \* ---- one testCaseRun during its replay (the dialog simulator) ----
    command,          \* testCaseRun.command
    env,              \* testCaseRun.env
    args,             \* testCaseRun.args
    readlines,        \* testCaseRun.readlines
    readlinesPos,     \* testCaseRun.readlinesPos
    readlineEnv,      \* testCaseRun.readlineEnv
    actualStdoutBuf,  \* testCaseRun.actualStdoutBuf
    \* ---- what the tool under test saw ----
    ret,              \* the last Readline result, [line, err]
    reads,            \* number of Readline calls made
    lastPrompt,       \* prompt argument of the last Readline call
    lastComplete,     \* complete argument of the last Readline call
    completeCalls,    \* calls made to complete(), in order: [line, pos]
    consumed,         \* the turns Readline has read from readlines, in order
    overridden,       \* K -> V of every override carried by a consumed turn
    wrote,            \* the tool wrote to stdout since the last Readline
    \* ---- parseTestCases over one transcript text ----
    text,             \* the transcript text, parseTestCases' argument s
    sections,         \* SectionParser(re, s)
    secIdx,           \* number of sections the loop has consumed
    parts,            \* testCase.parts
    currentTestRun,   \* parseTestCases' currentTestRun: <<>> (nil) or <<testCaseRun>>
    replDepth,        \* parseTestCases' replDepth
    replayIdx,        \* number of parts TestPath's loop over tc.parts has visited
    pstate,           \* "idle" | "text" | "parsing" | "parsed" | "panic" | "replayed"
                      \* | "done" | "command" | "commandParsed"
    \* ---- TestPath replaying one transcript ----
    writeActual,      \* the package variable writeActual (WRITE_ACTUAL is set)
    wasTested,        \* testCase.wasTested
    running,          \* testDecodedTestCaseRun of parts[replayIdx + 1] is inside q.Main
    reported,         \* the deepequal.Error reports made, in order
    written,          \* <<>> or <<the text ioutil.WriteFile wrote to tc.path>>
    replayLog,        \* the q.Main calls made and returned, in order
    lastOpen          \* the last testCase.Open call of the tool and its result

dialogVars == <<command, env, args, readlines, readlinesPos, readlineEnv,
                actualStdoutBuf, ret, reads, lastPrompt, lastComplete,
                completeCalls, consumed, overridden, wrote>>
parseVars == <<text, sections, secIdx, parts, currentTestRun, replDepth, replayIdx, pstate>>
replayVars == <<writeActual, wasTested, running, reported, written, replayLog, lastOpen>>
vars == <<dialogVars, parseVars, replayVars>>

\* ---------------------------------------------------------------- bounds
MaxTurns == 2
MaxReads == 3
MaxLines == 3
MaxTokens == 3

\* ------------------------------------------------------------- bytes
NL == "\n"
TAB == "\t"
CR == "\r"
BS == "<BS>"
SP == " "
BSL == "\\"
BQ == "<BQ>"

Digits == <<"0", "1", "2", "3", "4", "5", "6", "7", "8", "9">>
UpperOrUnderscore ==
    {"A", "B", "C", "D", "E", "F", "G", "H", "I", "J", "K", "L", "M", "N",
     "O", "P", "Q", "R", "S", "T", "U", "V", "W", "X", "Y", "Z", "_"}
\* unicode.IsSpace restricted to one-byte characters
WhiteSpace == {SP, TAB, NL, CR, "\f"}
\* the printable ASCII bytes 32..126, in order
Ascii ==
    <<" ", "!", "\"", "#", "$", "%", "&", "'", "(", ")", "*", "+", ",", "-",
      ".", "/", "0", "1", "2", "3", "4", "5", "6", "7", "8", "9", ":", ";",
      "<", "=", ">", "?", "@", "A", "B", "C", "D", "E", "F", "G", "H", "I",
      "J", "K", "L", "M", "N", "O", "P", "Q", "R", "S", "T", "U", "V", "W",
      "X", "Y", "Z", "[", "\\", "]", "^", "_", BQ, "a", "b", "c", "d", "e",
      "f", "g", "h", "i", "j", "k", "l", "m", "n", "o", "p", "q", "r", "s",
      "t", "u", "v", "w", "x", "y", "z", "{", "|", "}", "~">>

\* the byte with value n
ByteChar(n) ==
    IF n = 9 THEN TAB
    ELSE IF n = 10 THEN NL
    ELSE IF n = 13 THEN CR
    ELSE IF n = 8 THEN BS
    ELSE IF n >= 32 /\ n <= 126 THEN Ascii[n - 31]
    ELSE "\\x" \o ToString(n)

\* the value of the printable byte c (0 when c is not printable)
CharCode(c) ==
    IF \E n \in 1..Len(Ascii) : Ascii[n] = c
    THEN 31 + (CHOOSE n \in 1..Len(Ascii) : Ascii[n] = c)
    ELSE 0

\* --------------------------------------------------- package strings
HasPrefix(s, p) == Len(s) >= Len(p) /\ SubSeq(s, 1, Len(p)) = p
HasSuffix(s, p) == Len(s) >= Len(p) /\ SubSeq(s, Len(s) - Len(p) + 1, Len(s)) = p
TrimPrefix(s, p) == IF HasPrefix(s, p) THEN SubSeq(s, Len(p) + 1, Len(s)) ELSE s
TrimSuffix(s, p) == IF HasSuffix(s, p) THEN SubSeq(s, 1, Len(s) - Len(p)) ELSE s
Contains(s, c) == \E i \in 1..Len(s) : s[i] = c
\* 1-based position of the first / last byte c of s, 0 when there is none
\* (Go's IndexByte and LastIndex give this position minus one)
RECURSIVE IndexFrom(_, _, _)
IndexFrom(s, c, i) ==
    IF i > Len(s) THEN 0 ELSE IF s[i] = c THEN i ELSE IndexFrom(s, c, i + 1)
RECURSIVE LastIndexFrom(_, _, _)
LastIndexFrom(s, c, i) ==
    IF i < 1 THEN 0 ELSE IF s[i] = c THEN i ELSE LastIndexFrom(s, c, i - 1)
IndexByte(s, c) == IndexFrom(s, c, 1)
LastIndex(s, c) == LastIndexFrom(s, c, Len(s))
TrimSpace(s) ==
    IF \A i \in 1..Len(s) : s[i] \in WhiteSpace THEN <<>>
    ELSE LET a == CHOOSE i \in 1..Len(s) : s[i] \notin WhiteSpace /\ \A j \in 1..(i - 1) : s[j] \in WhiteSpace
             b == CHOOSE i \in 1..Len(s) : s[i] \notin WhiteSpace /\ \A j \in (i + 1)..Len(s) : s[j] \in WhiteSpace
         IN SubSeq(s, a, b)

RECURSIVE Concat(_)
\* the concatenation of a sequence of strings
Concat(ss) == IF ss = <<>> THEN <<>> ELSE Head(ss) \o Concat(Tail(ss))

\* ------------------------------------------------------------ Unescape
\* the character class [0-f] of unescapeRe: the bytes '0' (48) .. 'f' (102)
ZeroToF == {Ascii[n - 31] : n \in 48..102}
HexDigits == <<"0", "1", "2", "3", "4", "5", "6", "7", "8", "9", "a", "b", "c", "d", "e", "f">>
IsHex(c) == \E n \in 1..16 : HexDigits[n] = c \/ (n > 10 /\ Ascii[CharCode(HexDigits[n]) - 32 - 31] = c)
HexVal(c) ==
    (CHOOSE n \in 1..16 : HexDigits[n] = c \/ (n > 10 /\ Ascii[CharCode(HexDigits[n]) - 32 - 31] = c)) - 1

\* length of the match of unescapeRe at position i of s, 0 when there is none
EscapeLen(s, i) ==
    IF s[i] # BSL \/ i + 1 > Len(s) THEN 0
    ELSE IF s[i + 1] \in {"t", "b", "n", "r"} THEN 2
    ELSE IF s[i + 1] # "0" \/ i + 2 > Len(s) THEN 0
    ELSE IF s[i + 2] = "b" /\ i + 10 <= Len(s) /\ \A j \in (i + 3)..(i + 10) : s[j] \in {"0", "1"} THEN 11
    ELSE IF s[i + 2] = "x" /\ i + 4 <= Len(s) /\ \A j \in (i + 3)..(i + 4) : s[j] \in ZeroToF THEN 5
    ELSE 0

RECURSIVE BitsValue(_)
BitsValue(bits) ==
    IF bits = <<>> THEN 0
    ELSE 2 * BitsValue(SubSeq(bits, 1, Len(bits) - 1)) + (IF bits[Len(bits)] = "1" THEN 1 ELSE 0)

\* the replacement function of Unescape, applied to one match r
EscapeValue(r) ==
    IF r = <<BSL, "n">> THEN <<NL>>
    ELSE IF r = <<BSL, "r">> THEN <<CR>>
    ELSE IF r = <<BSL, "t">> THEN <<TAB>>
    ELSE IF r = <<BSL, "b">> THEN <<BS>>
    ELSE IF HasPrefix(r, <<BSL, "0", "b">>) THEN <<ByteChar(BitsValue(SubSeq(r, 4, Len(r))))>>
    ELSE IF HasPrefix(r, <<BSL, "0", "x">>)
         THEN (IF IsHex(r[4]) /\ IsHex(r[5]) THEN <<ByteChar(16 * HexVal(r[4]) + HexVal(r[5]))>> ELSE <<>>)
    ELSE r

RECURSIVE UnescapeFrom(_, _)
UnescapeFrom(s, i) ==
    IF i > Len(s) THEN <<>>
    ELSE LET n == EscapeLen(s, i)
         IN IF n = 0 THEN <<s[i]>> \o UnescapeFrom(s, i + 1)
            ELSE EscapeValue(SubSeq(s, i, i + n - 1)) \o UnescapeFrom(s, i + n)

Unescape(s) == UnescapeFrom(s, 1)

\* ------------------------------------------------- shquote (tokenizer)
\* kvRe = ^[A-Z_]+=
KvMatch(s) ==
    \E i \in 2..Len(s) : s[i] = "=" /\ \A j \in 1..(i - 1) : s[j] \in UpperOrUnderscore

RECURSIVE SplitFrom(_, _, _, _, _)
\* shell-style split of s from position i: cur is the token being built,
\* inTok whether one is, quote the open quote character ("" when none)
SplitFrom(s, i, cur, inTok, quote) ==
    IF i > Len(s) THEN (IF inTok THEN <<cur>> ELSE <<>>)
    ELSE LET c == s[i]
         IN IF quote # "" THEN
                (IF c = quote THEN SplitFrom(s, i + 1, cur, TRUE, "")
                 ELSE SplitFrom(s, i + 1, Append(cur, c), TRUE, quote))
            ELSE IF c \in {"'", "\""} THEN SplitFrom(s, i + 1, cur, TRUE, c)
            ELSE IF c \in WhiteSpace THEN
                (IF inTok THEN <<cur>> \o SplitFrom(s, i + 1, <<>>, FALSE, "")
                 ELSE SplitFrom(s, i + 1, <<>>, FALSE, ""))
            ELSE SplitFrom(s, i + 1, Append(cur, c), TRUE, "")

\* shquote.Split: the words of s, quotes removed
shquoteSplit(s) == SplitFrom(s, 1, <<>>, FALSE, "")

RECURSIVE ParseFrom(_, _)
\* shquote.Parse from position i: maximal runs of whitespace (separators) and
\* of other bytes (words), each with its 0-based half-open [Start, End)
ParseFrom(s, i) ==
    IF i > Len(s) THEN <<>>
    ELSE LET sep == s[i] \in WhiteSpace
             stop == IF \E j \in i..Len(s) : (s[j] \in WhiteSpace) # sep
                     THEN CHOOSE j \in i..Len(s) :
                              /\ (s[j] \in WhiteSpace) # sep
                              /\ \A k \in i..(j - 1) : (s[k] \in WhiteSpace) = sep
                     ELSE Len(s) + 1
         IN <<[Start |-> i - 1, End |-> stop - 1, Separator |-> sep,
               Str |-> SubSeq(s, i, stop - 1)]>> \o ParseFrom(s, stop)

shquoteParse(s) == ParseFrom(s, 1)

\* the tokens parseCommand's loop keeps as env: the loop stops at the first
\* token kvRe does not match
parseCommandKeep(parts_, i) == \A j \in 1..i : KvMatch(parts_[j])

parseCommandLeading(parts_) ==
    IF \E i \in 1..Len(parts_) : ~parseCommandKeep(parts_, i)
    THEN (CHOOSE i \in 1..Len(parts_) :
              ~parseCommandKeep(parts_, i) /\ \A j \in 1..(i - 1) : parseCommandKeep(parts_, j)) - 1
    ELSE Len(parts_)

\* parseCommand(s) = (env, args)
parseCommand_NoBreak(s) ==
    LET parts_ == shquoteSplit(s)
        keep(b) == {i \in 1..Len(parts_) : KvMatch(parts_[i]) = b}
        pick(S) == [k \in 1..Cardinality(S) |->
                        parts_[CHOOSE i \in S : Cardinality({j \in S : j < i}) = k - 1]]
    IN [env |-> pick(keep(TRUE)), args |-> pick(keep(FALSE))]

parseCommand(s) ==
    LET parts_ == shquoteSplit(s)
        n == parseCommandLeading(parts_)
    IN [env |-> SubSeq(parts_, 1, n),
        args |-> SubSeq(parts_, n + 1, Len(parts_))]

RECURSIVE parseInputLoop(_, _, _, _)
\* the loop of parseInput over tokens from index k, with env and l so far
parseInputLoop(tokens, k, env_, l) ==
    IF k > Len(tokens) THEN [env |-> env_, l |-> l]
    ELSE IF tokens[k].Separator THEN parseInputLoop(tokens, k + 1, env_, l)
    ELSE IF KvMatch(tokens[k].Str)
         THEN parseInputLoop(tokens, k + 1, Append(env_, tokens[k].Str), tokens[k].End)
    ELSE [env |-> env_, l |-> l]

\* parseInput(s) = (env, input)
parseInput(s) ==
    LET r == parseInputLoop(shquoteParse(s), 1, <<>>, 0)
    IN [env |-> r.env, input |-> SubSeq(s, r.l + 1, Len(s))]

\* the testCaseReadline parseTestCases builds from a dialog-prompt section
\* with header n and body v
promptEnd == ">"
PromptTurn(n, v) ==
    LET i == LastIndex(n, promptEnd)
        prompt == SubSeq(n, 1, i - 1) \o <<promptEnd, SP>>
        expr == TrimSpace(SubSeq(n, i + 1, Len(n)))
        p == parseInput(expr)
    IN [expr |-> expr, env |-> p.env, input |-> p.input,
        expectedPrompt |-> prompt, expectedStdout |-> v]

\* ------------------------------------------------- testCaseRun.Environ
\* the fixed entries Environ starts from
DefaultEnv ==
    << <<"_", "S", "T", "D", "I", "N", "_", "W", "I", "D", "T", "H", "=", "1", "3", "5">>,
       <<"_", "S", "T", "D", "I", "N", "_", "H", "E", "I", "G", "H", "T", "=", "2", "5">>,
       <<"_", "S", "T", "D", "O", "U", "T", "_", "W", "I", "D", "T", "H", "=", "1", "3", "5">>,
       <<"_", "S", "T", "D", "O", "U", "T", "_", "H", "E", "I", "G", "H", "T", "=", "2", "5">>,
       <<"_", "S", "T", "D", "O", "U", "T", "_", "I", "S", "T", "E", "R", "M", "I", "N", "A", "L", "=", "1">>,
       <<"N", "O", "_", "C", "O", "L", "O", "R", "=", "1">>,
       <<"N", "O", "_", "D", "E", "C", "O", "D", "E", "_", "P", "R", "O", "G", "R", "E", "S", "S", "=", "1">> >>

\* kv[:i] and kv[i+1:] for i the position of the first '=' of kv
EnvKey(kv) == SubSeq(kv, 1, IndexByte(kv, "=") - 1)
EnvValue(kv) == SubSeq(kv, IndexByte(kv, "=") + 1, Len(kv))

\* envm[kv[:i]] = kv[i+1:] when i > 0: a later entry of a key replaces an
\* earlier one; an entry with no '=' or an empty key is skipped
EnvMapPut(m, kv) ==
    LET i == IndexByte(kv, "=")
        key == SubSeq(kv, 1, i - 1)
        val == SubSeq(kv, i + 1, Len(kv))
    IN IF i > 1 THEN [k \in DOMAIN m \cup {key} |-> IF k = key THEN val ELSE m[k]]
       ELSE m

RECURSIVE EnvMapFrom(_, _, _)
\* the loop over env from index i, with envm = m so far
EnvMapFrom(list, i, m) ==
    IF i > Len(list) THEN m ELSE EnvMapFrom(list, i + 1, EnvMapPut(m, list[i]))

EnvMap(list) == EnvMapFrom(list, 1, << >>)

\* the entries Environ merges, in order
EnvironEntries(env_, readlineEnv_) == DefaultEnv \o env_ \o readlineEnv_

\* the list Environ returns from the merged entries: one k=v per key of the
\* map, in the map's iteration order, which is unspecified: the list is
\* modelled as a bag (entry -> number of occurrences)
EnvironList_NoMap(all) ==
    [kv \in {all[i] : i \in 1..Len(all)} |-> Cardinality({i \in 1..Len(all) : all[i] = kv})]

EnvironList(all) ==
    LET envm == EnvMap(all)
    IN [kv \in {k \o <<"=">> \o envm[k] : k \in DOMAIN envm} |-> 1]

Environ(env_, readlineEnv_) == EnvironList(EnvironEntries(env_, readlineEnv_))

\* var currentTestRun *testCaseRun  (nil)
NoRun == <<>>

\* ------------------------------------------------ testCaseRun.Readline
Nil == "nil"
EOF == "EOF"
EOFSentinel == <<"^", "D">>

\* tcr.readlinesPos >= len(tcr.readlines)
NoTurnsRemain(pos, rls) == pos >= Len(rls)

\* return "", io.EOF  (no turns remain)
ExhaustedResult_NoError == [line |-> <<>>, err |-> Nil]

ExhaustedResult == [line |-> <<>>, err |-> EOF]

\* tcr.readlineEnv = tcr.readlines[tcr.readlinesPos].env
TurnEnv_Keep(old, rl) == old

TurnEnv(old, rl) == rl.env

\* tcr.readlinesPos++
NextPos_Skip(pos) == pos + 2

NextPos(pos) == pos + 1

\* strings.HasSuffix(line, "\t")
IsCompletionRequest(line) == HasSuffix(line, <<TAB>>)

\* the arguments of complete(line[0:l], l) with l = len(line) - 1
CompleteArgs_WithTab(line) == [line |-> line, pos |-> Len(line)]

CompleteArgs(line) == [line |-> SubSeq(line, 1, Len(line) - 1), pos |-> Len(line) - 1]

\* what Readline returns for a turn that is no completion request
ReadResult_NeverEOF(line) == [line |-> line, err |-> Nil]

ReadResult(line) ==
    IF line = EOFSentinel THEN [line |-> <<>>, err |-> EOF]
    ELSE [line |-> line, err |-> Nil]

\* nl + "\n" for each nl of newLine, in order
CandidateLines(newLine) == Concat([i \in 1..Len(newLine) |-> newLine[i] \o <<NL>>])

\* The tool's completion functions: what complete number c returns for
\* (line, pos).  The first finds nothing, the second completes the text
\* before the cursor in two ways.
Completers == {1, 2}
Complete(c, line, pos) ==
    IF c = 1 THEN <<>>
    ELSE <<SubSeq(line, 1, pos) \o <<"o">>, SubSeq(line, 1, pos) \o <<"x", "y">> >>

\* the overrides of every turn consumed so far, a later one of a key
\* replacing an earlier one
Overlay(m, n) == [k \in DOMAIN m \cup DOMAIN n |-> IF k \in DOMAIN n THEN n[k] ELSE m[k]]

\* tcr.actualStdoutBuf.WriteString(prompt), the first statement of Readline
WritePrompt_None(buf, prompt) == buf

WritePrompt(buf, prompt) == buf \o prompt

Readline(prompt, c) ==
    /\ reads < MaxReads
    /\ reads' = reads + 1
    /\ lastPrompt' = prompt
    /\ lastComplete' = c
    /\ wrote' = FALSE
    /\ IF NoTurnsRemain(readlinesPos, readlines)
       THEN /\ actualStdoutBuf' = WritePrompt(actualStdoutBuf, prompt)
            /\ ret' = ExhaustedResult
            /\ UNCHANGED <<readlinesPos, readlineEnv, completeCalls, consumed, overridden>>
       ELSE LET rl == readlines[readlinesPos + 1]
                expr == rl.expr
                lineRaw == rl.input
                line == Unescape(lineRaw)
            IN /\ readlineEnv' = TurnEnv(readlineEnv, rl)
               /\ readlinesPos' = NextPos(readlinesPos)
               /\ consumed' = Append(consumed, rl)
               /\ overridden' = Overlay(overridden, EnvMap(rl.env))
               /\ IF IsCompletionRequest(line)
                  THEN LET a == CompleteArgs(line)
                           newLine == Complete(c, a.line, a.pos)
                       IN /\ completeCalls' = Append(completeCalls, a)
                          /\ actualStdoutBuf' =
                                 WritePrompt(actualStdoutBuf, prompt) \o lineRaw \o <<NL>> \o CandidateLines(newLine)
                          /\ ret' = [line |-> <<>>, err |-> Nil]
                  ELSE /\ actualStdoutBuf' = WritePrompt(actualStdoutBuf, prompt) \o expr \o <<NL>>
                       /\ ret' = ReadResult(line)
                       /\ UNCHANGED completeCalls
    /\ UNCHANGED <<command, env, args, readlines>>
    /\ UNCHANGED <<parseVars, replayVars>>

\* the tool writes out to its Stdout(), whose Writer is actualStdoutBuf
ToolWrite(out) ==
    /\ ~wrote
    /\ wrote' = TRUE
    /\ actualStdoutBuf' = actualStdoutBuf \o out
    /\ UNCHANGED <<command, env, args, readlines, readlinesPos, readlineEnv, ret, reads,
                   lastPrompt, lastComplete, completeCalls, consumed, overridden>>
    /\ UNCHANGED <<parseVars, replayVars>>

\* ---- the invocations and dialogs replayed ----
\* invocation headers, after the "$":  ` fq -i`  and  ` NO_COLOR=0 A=0 A=1 fq -i`
Commands ==
    { <<" ", "f", "q", " ", "-", "i">>,
      <<" ", "N", "O", "_", "C", "O", "L", "O", "R", "=", "0", " ", "A", "=", "0", " ",
        "A", "=", "1", " ", "f", "q", " ", "-", "i">> }

\* dialog-prompt section headers:
\*   a> x          a> A=2 B=1 x     a> fo\t     a> ^D     a> B=3 f\0x09
PromptHeaders ==
    { <<"a", ">", " ", "x">>,
      <<"a", ">", " ", "A", "=", "2", " ", "B", "=", "1", " ", "x">>,
      <<"a", ">", " ", "f", "o", BSL, "t">>,
      <<"a", ">", " ", "^", "D">>,
      <<"a", ">", " ", "B", "=", "3", " ", "f", BSL, "0", "x", "0", "9">> }
PromptBodies == { <<"2", NL>> }
Turns == {PromptTurn(n, v) : n \in PromptHeaders, v \in PromptBodies}
\* the prompts the tool passes to Readline, and what it writes
ToolPrompts == { <<"a", ">", " ">> }
ToolOutputs == { <<"2", NL>> }

RECURSIVE SeqsUpTo(_, _)
\* the sequences over S of length at most n
SeqsUpTo(S, n) ==
    IF n = 0 THEN {<<>>}
    ELSE LET shorter == SeqsUpTo(S, n - 1)
         IN shorter \cup {Append(q, x) : q \in {r \in shorter : Len(r) = n - 1}, x \in S}

\* no transcript is being replayed
ReplayIdle ==
    /\ writeActual = FALSE
    /\ wasTested = FALSE
    /\ running = FALSE
    /\ reported = <<>>
    /\ written = <<>>
    /\ replayLog = <<>>
    /\ lastOpen = <<>>

ParseIdle ==
    /\ text = <<>>
    /\ sections = <<>>
    /\ secIdx = 0
    /\ parts = <<>>
    /\ currentTestRun = NoRun
    /\ replDepth = 0
    /\ replayIdx = 0
    /\ pstate = "idle"

\* a testCaseRun as parseTestCases leaves it, before the tool has run
Init ==
    /\ command \in Commands
    /\ env = parseCommand(command).env
    /\ args = parseCommand(command).args
    /\ readlines \in SeqsUpTo(Turns, MaxTurns)
    /\ readlinesPos = 0
    /\ readlineEnv = <<>>
    /\ actualStdoutBuf = <<>>
    /\ ret = [line |-> <<>>, err |-> "none"]
    /\ reads = 0
    /\ lastPrompt = <<>>
    /\ lastComplete = 1
    /\ completeCalls = <<>>
    /\ consumed = <<>>
    /\ overridden = << >>
    /\ wrote = FALSE
    /\ ParseIdle
    /\ ReplayIdle

Next ==
    \/ \E prompt \in ToolPrompts, c \in Completers : Readline(prompt, c)
    \/ \E out \in ToolOutputs : ToolWrite(out)

Spec == Init /\ [][Next]_vars

\* ------------------------------------------------------ SectionParser
RECURSIVE SplitLinesFrom(_, _, _)
SplitLinesFrom(s, i, cur) ==
    IF i > Len(s) THEN <<cur>>
    ELSE IF s[i] = NL THEN <<cur>> \o SplitLinesFrom(s, i + 1, <<>>)
    ELSE SplitLinesFrom(s, i + 1, Append(cur, s[i]))

\* strings.Split(s, "\n")
StringsSplit(s) == SplitLinesFrom(s, 1, <<>>)

\* the lines SectionParser loops over: the last one is skipped when empty
SectionLines(s) ==
    LET lines == StringsSplit(s)
    IN IF lines[Len(lines)] = <<>> THEN SubSeq(lines, 1, Len(lines) - 1) ELSE lines

\* the text the section expression of parseTestCases matches in line l,
\* <<>> when it does not match:
\*   ^\$ .*$|^stdin:$|^stderr:$|^exitcode:.*$|^#.*$|^/.*:|^[^<:|]+>.*$
\* The first alternative that matches decides; all but ^/.*: match the whole
\* line, ^/.*: matches up to the last colon.
MatchHeader(l) ==
    IF HasPrefix(l, <<"$", SP>>) THEN l
    ELSE IF l = <<"s", "t", "d", "i", "n", ":">> THEN l
    ELSE IF l = <<"s", "t", "d", "e", "r", "r", ":">> THEN l
    ELSE IF HasPrefix(l, <<"e", "x", "i", "t", "c", "o", "d", "e", ":">>) THEN l
    ELSE IF HasPrefix(l, <<"#">>) THEN l
    ELSE IF HasPrefix(l, <<"/">>) /\ LastIndex(l, ":") > 1 THEN SubSeq(l, 1, LastIndex(l, ":"))
    ELSE IF \E i \in 2..Len(l) : l[i] = ">" /\ \A j \in 1..(i - 1) : l[j] \notin {"<", ":", "|"} THEN l
    ELSE <<>>

\* cs.Value += l + lineDelim
AppendLine_NoDelim(value, l) == value \o l

AppendLine(value, l) == value \o l \o <<NL>>

RECURSIVE SectionLoop(_, _, _)
\* the loop of SectionParser from line i (lineNr = i), with the sections so
\* far; cs is the last of them
SectionLoop(lines, i, secs) ==
    IF i > Len(lines) THEN secs
    ELSE LET l == lines[i]
             sm == MatchHeader(l)
         IN IF secs = <<>> \/ sm # <<>>
            THEN SectionLoop(lines, i + 1, Append(secs, [LineNr |-> i, Name |-> sm, Value |-> <<>>]))
            ELSE SectionLoop(lines, i + 1,
                     [secs EXCEPT ![Len(secs)].Value = AppendLine(secs[Len(secs)].Value, l)])

SectionParser(s) == SectionLoop(SectionLines(s), 1, <<>>)

\* ----------------------------------------------------- parseTestCases
RECURSIVE DigitsValue(_)
DigitsValue(ds) ==
    IF ds = <<>> THEN 0
    ELSE 10 * DigitsValue(SubSeq(ds, 1, Len(ds) - 1)) + (CharCode(ds[Len(ds)]) - 48)

IsDigits(ds) == ds # <<>> /\ \A i \in 1..Len(ds) : \E d \in 1..10 : Digits[d] = ds[i]

\* n, _ := strconv.Atoi(s): 0 when s is no decimal integer
Atoi(s) ==
    IF s # <<>> /\ s[1] \in {"+", "-"}
    THEN (IF IsDigits(Tail(s)) THEN (IF s[1] = "-" THEN 0 - DigitsValue(Tail(s)) ELSE DigitsValue(Tail(s))) ELSE 0)
    ELSE IF IsDigits(s) THEN DigitsValue(s) ELSE 0

RECURSIVE FormatNat(_)
FormatNat(n) == IF n < 10 THEN <<Digits[n + 1]>> ELSE FormatNat(n \div 10) \o <<Digits[(n % 10) + 1]>>

\* fmt's %d
FormatInt(n) == IF n < 0 THEN <<"-">> \o FormatNat(0 - n) ELSE FormatNat(n)

ExitcodePrefix == <<"e", "x", "i", "t", "c", "o", "d", "e", ":">>

\* the case the switch of parseTestCases takes for a section named n
SectionKind(n) ==
    IF HasPrefix(n, <<"#">>) THEN "comment"
    ELSE IF HasPrefix(n, <<"/">>) THEN "file"
    ELSE IF HasPrefix(n, <<"$">>) THEN "run"
    ELSE IF HasPrefix(n, ExitcodePrefix) THEN "exitcode"
    ELSE IF HasPrefix(n, <<"s", "t", "d", "i", "n">>) THEN "stdin"
    ELSE IF HasPrefix(n, <<"s", "t", "d", "e", "r", "r">>) THEN "stderr"
    ELSE IF Contains(n, promptEnd) THEN "prompt"
    ELSE "default"

\* if currentTestRun != nil { te.parts = append(te.parts, currentTestRun) }
FlushCurrent_Front(parts_, cur) == IF cur # NoRun THEN <<cur[1]>> \o parts_ ELSE parts_

FlushCurrent(parts_, cur) == IF cur # NoRun THEN Append(parts_, cur[1]) ELSE parts_

\* the testCaseRun a "$" section with header n and body v starts
NewRun(lineNr, n, v) ==
    LET command_ == TrimPrefix(n, <<"$">>)
        pc == parseCommand(command_)
    IN [kind |-> "run", lineNr |-> lineNr, command |-> command_,
        env |-> pc.env, args |-> pc.args,
        stdin |-> <<>>,
        expectedStdout |-> TrimSuffix(v, <<BSL, NL>>),
        expectedStderr |-> <<>>, expectedExitCode |-> 0,
        actualStdout |-> <<>>, actualStderr |-> <<>>, actualExitCode |-> 0,
        readlines |-> <<>>]

Section == sections[secIdx + 1]
\* *currentTestRun
Current == currentTestRun[1]
Parsing(kind) == pstate = "parsing" /\ secIdx < Len(sections) /\ SectionKind(Section.Name) = kind
Consume == secIdx' = secIdx + 1 /\ UNCHANGED <<text, sections, replayIdx>> /\ UNCHANGED <<dialogVars, replayVars>>

ParseComment ==
    /\ Parsing("comment")
    /\ parts' = Append(parts, [kind |-> "comment", lineNr |-> Section.LineNr,
                               comment |-> SubSeq(Section.Name, 2, Len(Section.Name))])
    /\ UNCHANGED <<currentTestRun, replDepth, pstate>>
    /\ Consume

ParseFile ==
    /\ Parsing("file")
    /\ parts' = Append(parts, [kind |-> "file", lineNr |-> Section.LineNr,
                               name |-> SubSeq(Section.Name, 1, Len(Section.Name) - 1),
                               data |-> Section.Value])
    /\ UNCHANGED <<currentTestRun, replDepth, pstate>>
    /\ Consume

ParseRun ==
    /\ Parsing("run")
    /\ replDepth' = replDepth + 1
    /\ parts' = FlushCurrent(parts, currentTestRun)
    /\ currentTestRun' = <<NewRun(Section.LineNr, Section.Name, Section.Value)>>
    /\ UNCHANGED pstate
    /\ Consume

\* a section that sets a field of currentTestRun: with no current run the
\* assignment dereferences nil and parseTestCases panics
SetField_Ignore(run) ==
    /\ IF currentTestRun = NoRun
       THEN UNCHANGED <<pstate, currentTestRun>>
       ELSE currentTestRun' = <<run>> /\ UNCHANGED pstate
    /\ UNCHANGED parts
    /\ Consume

SetField(run) ==
    /\ IF currentTestRun = NoRun
       THEN pstate' = "panic" /\ UNCHANGED currentTestRun
       ELSE currentTestRun' = <<run>> /\ UNCHANGED pstate
    /\ UNCHANGED parts
    /\ Consume

ParseExitcode ==
    /\ Parsing("exitcode")
    /\ SetField([Current EXCEPT
                    !.expectedExitCode = Atoi(TrimSpace(TrimPrefix(Section.Name, ExitcodePrefix)))])
    /\ UNCHANGED replDepth

ParseStdin ==
    /\ Parsing("stdin")
    /\ SetField([Current EXCEPT !.stdin = Section.Value])
    /\ UNCHANGED replDepth

ParseStderr ==
    /\ Parsing("stderr")
    /\ SetField([Current EXCEPT !.expectedStderr = Section.Value])
    /\ UNCHANGED replDepth

\* "| repl" occurs in expr
ContainsRepl(expr) ==
    \E i \in 1..(Len(expr) - 5) : SubSeq(expr, i, i + 5) = <<"|", SP, "r", "e", "p", "l">>

ParsePrompt ==
    /\ Parsing("prompt")
    /\ LET rl == PromptTurn(Section.Name, Section.Value)
       IN /\ SetField([Current EXCEPT !.readlines = Append(@, rl)])
          /\ replDepth' = IF currentTestRun = NoRun THEN replDepth
                          ELSE replDepth + (IF ContainsRepl(rl.expr) THEN 1 ELSE 0)
                                         - (IF rl.expr = EOFSentinel THEN 1 ELSE 0)

\* default: panic(fmt.Sprintf("%d: unexpected section %q %q", ...))
ParseDefault_Skip ==
    /\ Parsing("default")
    /\ UNCHANGED <<parts, currentTestRun, replDepth, pstate>>
    /\ Consume

ParseDefault ==
    /\ Parsing("default")
    /\ pstate' = "panic"
    /\ UNCHANGED <<parts, currentTestRun, replDepth>>
    /\ Consume

\* after the loop: the current run is flushed and te returned
ParseEnd ==
    /\ pstate = "parsing"
    /\ secIdx = Len(sections)
    /\ parts' = FlushCurrent(parts, currentTestRun)
    /\ pstate' = "parsed"
    /\ UNCHANGED <<text, sections, secIdx, currentTestRun, replDepth, replayIdx>>
    /\ UNCHANGED <<dialogVars, replayVars>>

\* ------------------------------------------- ToExpectedStdout, ToActual
RECURSIVE TurnsStdout(_)
TurnsStdout(rls) ==
    IF rls = <<>> THEN <<>>
    ELSE Head(rls).expectedPrompt \o Head(rls).expr \o <<NL>> \o Head(rls).expectedStdout
             \o TurnsStdout(Tail(rls))

\* the flat body whatever the turns
ToExpectedStdout_Flat(tcr) == tcr.expectedStdout

ToExpectedStdout(tcr) ==
    IF Len(tcr.readlines) = 0 THEN tcr.expectedStdout ELSE TurnsStdout(tcr.readlines)

RECURSIVE SortByLine(_)
\* sort.Slice by Line(): the part with the smallest line first
SortByLine(ps) ==
    IF ps = <<>> THEN <<>>
    ELSE LET m == CHOOSE i \in 1..Len(ps) : \A j \in 1..Len(ps) : ps[i].lineNr <= ps[j].lineNr
         IN <<ps[m]>> \o SortByLine(SubSeq(ps, 1, m - 1) \o SubSeq(ps, m + 1, Len(ps)))

\* the actual stdout as ToActual writes it: a stdout that does not end in a
\* newline gets the continuation marker
RenderStdout_NoMarker(s) == s

RenderStdout(s) ==
    IF s = <<>> THEN <<>>
    ELSE IF HasSuffix(s, <<NL>>) THEN s
    ELSE s \o <<BSL, NL>>

RenderPart(p) ==
    IF p.kind = "comment" THEN <<"#">> \o p.comment \o <<NL>>
    ELSE IF p.kind = "file" THEN p.name \o <<":", NL>> \o p.data
    ELSE <<"$">> \o p.command \o <<NL>>
         \o RenderStdout(p.actualStdout)
         \o (IF p.actualExitCode # 0
             THEN ExitcodePrefix \o <<SP>> \o FormatInt(p.actualExitCode) \o <<NL>> ELSE <<>>)
         \o (IF p.stdin # <<>> THEN <<"s", "t", "d", "i", "n", ":", NL>> \o p.stdin ELSE <<>>)
         \o (IF Len(p.actualStderr) > 0
             THEN <<"s", "t", "d", "e", "r", "r", ":", NL>> \o p.actualStderr ELSE <<>>)

ToActual(ps) ==
    LET partsLineSorted == SortByLine(ps)
    IN Concat([i \in 1..Len(partsLineSorted) |-> RenderPart(partsLineSorted[i])])

\* ----------------------------------------------------------- TestPath
\* What the tool under test leaves in a run: "match" is a tool whose
\* stdout, stderr and exit code are the expected ones, "flat" one that
\* prints the invocation's own stdout body, "differ" one that prints "?",
\* nothing on stderr, and exits 2.
Outcomes == {"match", "flat", "differ"}
Replayed(tcr, outcome) ==
    IF outcome = "match"
    THEN [tcr EXCEPT !.actualStdout = ToExpectedStdout(tcr),
                     !.actualStderr = tcr.expectedStderr,
                     !.actualExitCode = tcr.expectedExitCode]
    ELSE IF outcome = "flat"
    THEN [tcr EXCEPT !.actualStdout = tcr.expectedStdout,
                     !.actualStderr = tcr.expectedStderr,
                     !.actualExitCode = tcr.expectedExitCode]
    ELSE [tcr EXCEPT !.actualStdout = <<"?", NL>>,
                     !.actualStderr = <<>>,
                     !.actualExitCode = 2]

\* for _, p := range tc.parts: the part visited k-th, of n
VisitIndex_Backwards(k, n) == n + 1 - k

VisitIndex(k, n) == k

\* the part the loop of TestPath is at
Visited == parts[VisitIndex(replayIdx + 1, Len(parts))]

\* deepequal.Error(t, name, expected, actual): a report when they differ
DeepequalError(lineNr, name, expected, actual) ==
    IF expected = actual THEN <<>>
    ELSE << [lineNr |-> lineNr, field |-> name, expected |-> expected, actual |-> actual] >>

\* the comparisons testDecodedTestCaseRun makes of a run the tool has left;
\* with writeActual it returns before them
Comparisons(mode, tcr) ==
    IF mode THEN <<>>
    ELSE DeepequalError(tcr.lineNr, "exitcode", tcr.expectedExitCode, tcr.actualExitCode)
         \o DeepequalError(tcr.lineNr, "stdout", ToExpectedStdout(tcr), tcr.actualStdout)
         \o DeepequalError(tcr.lineNr, "stderr", tcr.expectedStderr, tcr.actualStderr)

RECURSIVE OpenFrom(_, _, _)
\* testCase.Open(name) from part i on: the first fixture of that name
\* decides; one without data stands for the real file next to the transcript
OpenFrom(ps, i, name) ==
    IF i > Len(ps) THEN [kind |-> "notfound"]
    ELSE IF ps[i].kind = "file" /\ ps[i].name = name
    THEN (IF Len(ps[i].data) = 0 THEN [kind |-> "realfile", name |-> name]
          ELSE [kind |-> "fixture", data |-> ps[i].data])
    ELSE OpenFrom(ps, i + 1, name)

\* every name falls back to the real file
OpenResult_RealFile(ps, name) ==
    IF OpenFrom(ps, 1, name).kind = "notfound" THEN [kind |-> "realfile", name |-> name]
    ELSE OpenFrom(ps, 1, name)

OpenResult(ps, name) == OpenFrom(ps, 1, name)

\* the names the tool looks up:  /a  /b
LookupNames == { <<"/", "a">>, <<"/", "b">> }

ReplayFrame == UNCHANGED <<text, sections, secIdx, currentTestRun, replDepth>> /\ UNCHANGED dialogVars

\* a part that is no testCaseRun: continue
ReplaySkip ==
    /\ pstate = "parsed" /\ ~running
    /\ replayIdx < Len(parts)
    /\ Visited.kind # "run"
    /\ replayIdx' = replayIdx + 1
    /\ UNCHANGED <<parts, pstate>>
    /\ UNCHANGED replayVars
    /\ ReplayFrame

\* testDecodedTestCaseRun: interp.New fails and t.Fatal ends the subtest
\* before q.Main is called and before wasTested is set
ReplayNewFails ==
    /\ pstate = "parsed" /\ ~running
    /\ replayIdx < Len(parts)
    /\ Visited.kind = "run"
    /\ replayIdx' = replayIdx + 1
    /\ UNCHANGED <<parts, pstate>>
    /\ UNCHANGED replayVars
    /\ ReplayFrame

\* testDecodedTestCaseRun: interp.New succeeded and q.Main is called
ReplayStart ==
    /\ pstate = "parsed" /\ ~running
    /\ replayIdx < Len(parts)
    /\ Visited.kind = "run"
    /\ running' = TRUE
    /\ replayLog' = Append(replayLog, [ev |-> "start", lineNr |-> Visited.lineNr])
    /\ UNCHANGED <<parts, pstate, replayIdx>>
    /\ UNCHANGED <<writeActual, wasTested, reported, written, lastOpen>>
    /\ ReplayFrame

\* the tool, inside q.Main, opens name through FS(), which is the testCase
Open(name) ==
    /\ pstate = "parsed" /\ running
    /\ lastOpen' = << [name |-> name, lineNr |-> Visited.lineNr, result |-> OpenResult(parts, name)] >>
    /\ UNCHANGED <<parts, pstate, replayIdx>>
    /\ UNCHANGED <<writeActual, wasTested, running, reported, written, replayLog>>
    /\ ReplayFrame

\* q.Main returns having left outcome in the run; testDecodedTestCaseRun
\* compares unless writeActual, and TestPath sets wasTested
ReplayPart(outcome) ==
    /\ pstate = "parsed" /\ running
    /\ LET i == VisitIndex(replayIdx + 1, Len(parts))
           tcr == Replayed(parts[i], outcome)
       IN /\ parts' = [parts EXCEPT ![i] = tcr]
          /\ reported' = reported \o Comparisons(writeActual, tcr)
          /\ replayLog' = Append(replayLog, [ev |-> "return", lineNr |-> tcr.lineNr])
    /\ wasTested' = TRUE
    /\ running' = FALSE
    /\ replayIdx' = replayIdx + 1
    /\ UNCHANGED <<pstate, writeActual, written, lastOpen>>
    /\ ReplayFrame

\* the loop over tc.parts is over
ReplayEnd ==
    /\ pstate = "parsed" /\ ~running
    /\ replayIdx = Len(parts)
    /\ pstate' = "replayed"
    /\ UNCHANGED <<parts, replayIdx>>
    /\ UNCHANGED replayVars
    /\ ReplayFrame

\* if writeActual: a testCase that wasTested is written back
ShouldWrite_Untested(mode, tested) == mode

ShouldWrite(mode, tested) == mode /\ tested

\* the end of TestPath: the transcript is written with ToActual() or not
WriteActualFile ==
    /\ pstate = "replayed"
    /\ pstate' = "done"
    /\ written' = IF ShouldWrite(writeActual, wasTested) THEN <<ToActual(parts)>> ELSE <<>>
    /\ UNCHANGED <<parts, replayIdx>>
    /\ UNCHANGED <<writeActual, wasTested, running, reported, replayLog, lastOpen>>
    /\ ReplayFrame

\* ---- the transcripts parsed ----
\* the lines transcripts are made of:
\*   $ fq     #c     /a:     /a:b     stdin:     stderr:     exitcode: 1
\*   a> x     x      x\     /a>    and the empty line
TranscriptLines ==
    { <<>>,
      <<"/", "a", ">">>,
      <<"$", " ", "f", "q">>,
      <<"#", "c">>,
      <<"/", "a", ":">>,
      <<"/", "a", ":", "b">>,
      <<"s", "t", "d", "i", "n", ":">>,
      <<"s", "t", "d", "e", "r", "r", ":">>,
      <<"e", "x", "i", "t", "c", "o", "d", "e", ":", " ", "1">>,
      <<"a", ">", " ", "x">>,
      <<"x">>,
      <<"x", BSL>> }

RECURSIVE JoinLines(_)
\* the lines, a newline between each two
JoinLines(ls) ==
    IF ls = <<>> THEN <<>>
    ELSE IF Len(ls) = 1 THEN ls[1]
    ELSE ls[1] \o <<NL>> \o JoinLines(Tail(ls))

LineRun == <<"$", " ", "f", "q">>
LineComment == <<"#", "c">>
LineStdin == <<"s", "t", "d", "i", "n", ":">>
LineStderr == <<"s", "t", "d", "e", "r", "r", ":">>
LineExitcode == <<"e", "x", "i", "t", "c", "o", "d", "e", ":", " ", "1">>
LinePrompt == <<"a", ">", " ", "x">>
LineText == <<"x">>

\* a comment and an invocation with a dialog turn and output, a nonzero
\* exit code, stdin and stderr, written in the order ToActual writes them
FullTranscript ==
    JoinLines(<<LineComment, LineRun, LinePrompt, LineText, LineExitcode,
                LineStdin, LineText, LineStderr, LineText>>) \o <<NL>>

\* longer transcripts: blocks of one invocation in the rewriter's order, in
\* the reverse order, one block twice, and two invocations with dialog turns
ExampleTranscripts ==
    { FullTranscript,
      JoinLines(<<LineRun, LineText, LineExitcode, LineStdin, LineText, LineStderr, LineText>>) \o <<NL>>,
      JoinLines(<<LineRun, LineText, LineStderr, LineText, LineStdin, LineText, LineExitcode>>) \o <<NL>>,
      JoinLines(<<LineRun, LineStdin, LineText, LineStdin, LineText>>) \o <<NL>>,
      JoinLines(<<LineRun, LinePrompt, LineText, LinePrompt, LineComment, LineRun, LinePrompt>>) \o <<NL>> }

\* the transcript texts: up to MaxLines lines, the last one with or
\* without its newline, and the longer examples
Transcripts ==
    {JoinLines(ls) \o nl : ls \in SeqsUpTo(TranscriptLines, MaxLines), nl \in {<<>>, <<NL>>}}
        \cup ExampleTranscripts

DialogIdle ==
    /\ command = <<>>
    /\ env = <<>>
    /\ args = <<>>
    /\ readlines = <<>>
    /\ readlinesPos = 0
    /\ readlineEnv = <<>>
    /\ actualStdoutBuf = <<>>
    /\ ret = [line |-> <<>>, err |-> "none"]
    /\ reads = 0
    /\ lastPrompt = <<>>
    /\ lastComplete = 1
    /\ completeCalls = <<>>
    /\ consumed = <<>>
    /\ overridden = << >>
    /\ wrote = FALSE

\* parseTestCases(s) is entered with the text of a transcript file
InitParse ==
    /\ text \in Transcripts
    /\ sections = <<>>
    /\ secIdx = 0
    /\ parts = <<>>
    /\ currentTestRun = NoRun
    /\ replDepth = 0
    /\ replayIdx = 0
    /\ pstate = "text"
    /\ DialogIdle
    /\ writeActual \in BOOLEAN
    /\ wasTested = FALSE
    /\ running = FALSE
    /\ reported = <<>>
    /\ written = <<>>
    /\ replayLog = <<>>
    /\ lastOpen = <<>>

\* for _, section := range SectionParser(re, s): the text is split
SplitSections ==
    /\ pstate = "text"
    /\ sections' = SectionParser(text)
    /\ pstate' = "parsing"
    /\ UNCHANGED <<text, secIdx, parts, currentTestRun, replDepth, replayIdx>>
    /\ UNCHANGED <<dialogVars, replayVars>>

NextParse ==
    \/ SplitSections
    \/ ParseComment
    \/ ParseFile
    \/ ParseRun
    \/ ParseExitcode
    \/ ParseStdin
    \/ ParseStderr
    \/ ParsePrompt
    \/ ParseDefault
    \/ ParseEnd
    \/ ReplaySkip
    \/ ReplayNewFails
    \/ ReplayStart
    \/ \E name \in LookupNames : Open(name)
    \/ \E outcome \in Outcomes : ReplayPart(outcome)
    \/ ReplayEnd
    \/ WriteActualFile

SpecParse == InitParse /\ [][NextParse]_vars

\* ---- parseCommand on its own ----
\* the words command lines are made of:
\*   FOO=1   BAR=2   run   --flag   x   foo=1   'A=1 b'
CommandWords ==
    { <<"F", "O", "O", "=", "1">>,
      <<"B", "A", "R", "=", "2">>,
      <<"r", "u", "n">>,
      <<"-", "-", "f", "l", "a", "g">>,
      <<"x">>,
      <<"f", "o", "o", "=", "1">>,
      <<"'", "A", "=", "1", " ", "b", "'">> }

RECURSIVE JoinWords(_)
\* the words, each after a space (a header's command follows the "$")
JoinWords(ws) == IF ws = <<>> THEN <<>> ELSE <<SP>> \o Head(ws) \o JoinWords(Tail(ws))

\*   FOO=1 BAR=2 run --flag x     and     run FOO=1
ExampleCommands ==
    { <<"F", "O", "O", "=", "1", " ", "B", "A", "R", "=", "2", " ", "r", "u", "n", " ",
        "-", "-", "f", "l", "a", "g", " ", "x">>,
      <<"r", "u", "n", " ", "F", "O", "O", "=", "1">> }

CommandLines == {JoinWords(ws) : ws \in SeqsUpTo(CommandWords, MaxTokens)} \cup ExampleCommands

\* parseTestCases has read an invocation header's command
InitCommand ==
    /\ command \in CommandLines
    /\ env = <<>>
    /\ args = <<>>
    /\ readlines = <<>>
    /\ readlinesPos = 0
    /\ readlineEnv = <<>>
    /\ actualStdoutBuf = <<>>
    /\ ret = [line |-> <<>>, err |-> "none"]
    /\ reads = 0
    /\ lastPrompt = <<>>
    /\ lastComplete = 1
    /\ completeCalls = <<>>
    /\ consumed = <<>>
    /\ overridden = << >>
    /\ wrote = FALSE
    /\ text = <<>>
    /\ sections = <<>>
    /\ secIdx = 0
    /\ parts = <<>>
    /\ currentTestRun = NoRun
    /\ replDepth = 0
    /\ replayIdx = 0
    /\ pstate = "command"
    /\ ReplayIdle

\* env, args := parseCommand(command)
ParseCommandCall ==
    /\ pstate = "command"
    /\ env' = parseCommand(command).env
    /\ args' = parseCommand(command).args
    /\ pstate' = "commandParsed"
    /\ UNCHANGED <<command, readlines, readlinesPos, readlineEnv, actualStdoutBuf, ret, reads,
                   lastPrompt, lastComplete, completeCalls, consumed, overridden, wrote>>
    /\ UNCHANGED <<text, sections, secIdx, parts, currentTestRun, replDepth, replayIdx>>
    /\ UNCHANGED replayVars

NextCommand == ParseCommandCall

SpecCommand == InitCommand /\ [][NextCommand]_vars

\* ======================================================= parser claims
IsParsed == pstate \in {"parsed", "replayed"}

\* C6 (as stated): the parts of an accepted transcript are sorted by line
\* number, strictly increasing.
C6_PartsSorted ==
    IsParsed => \A i, j \in 1..Len(parts) : i < j => parts[i].lineNr < parts[j].lineNr

\* C6 (amended): the parts of an accepted transcript have distinct line
\* numbers and are in line order except that a comment or fixture that
\* follows an invocation header (before the next one) comes before that
\* invocation in parts; the list ToActual renders, parts sorted by Line(), is
\* strictly increasing.
C6_PartsSortedButForPendingRun ==
    IsParsed =>
        /\ \A i, j \in 1..Len(parts) : i < j =>
               \/ parts[i].lineNr < parts[j].lineNr
               \/ /\ parts[i].lineNr > parts[j].lineNr
                  /\ parts[i].kind # "run"
                  /\ parts[j].kind = "run"
                  /\ \A k \in (j + 1)..Len(parts) :
                         parts[k].kind = "run" => parts[k].lineNr > parts[i].lineNr
        /\ LET sorted == SortByLine(parts)
           IN /\ Len(sorted) = Len(parts)
              /\ \A i \in 1..Len(parts) : \E j \in 1..Len(sorted) : sorted[j] = parts[i]
              /\ \A i, j \in 1..Len(sorted) : i < j => sorted[i].lineNr < sorted[j].lineNr

\* a comment on line 2 and a fixture on line 3 follow the header on line 1:
\* parts holds them before the invocation
C6_Witness ==
    /\ pstate = "parsed"
    /\ Len(parts) = 3
    /\ parts[1].kind = "comment" /\ parts[1].lineNr = 2
    /\ parts[2].kind = "file" /\ parts[2].lineNr = 3
    /\ parts[3].kind = "run" /\ parts[3].lineNr = 1

\* the sections, each header line followed by its body, concatenated
Reconstruct(secs) == Concat([i \in 1..Len(secs) |-> secs[i].Name \o <<NL>> \o secs[i].Value])

\* C7 (as stated): concatenating the sections SectionParser returns, each
\* header line followed by its body, gives back the text, whatever the first
\* line, the text after a matched header and the end of the last line.
C7_Lossless == pstate # "text" => Reconstruct(sections) = text

\* the text was split, every line that starts a section is matched in
\* full, and the text is empty or ends in a newline
LexedWhole ==
    /\ pstate # "text"
    /\ text = <<>> \/ HasSuffix(text, <<NL>>)
    /\ \A i \in 1..Len(sections) : sections[i].Name = SectionLines(text)[sections[i].LineNr]

\* C7 (amended): concatenating the sections gives back the text when the
\* text is empty or ends in a newline and every line that starts a section
\* is matched in full by the boundary expression (the first line is a
\* boundary line or empty, a fixture line ends at its last colon).
C7_LosslessWhenLexedWhole == LexedWhole => Reconstruct(sections) = text

\* two sections, bodies of one and of no lines, both matched in full
C7_Witness ==
    /\ LexedWhole
    /\ Len(sections) = 2
    /\ sections[1].Name = <<"$", " ", "f", "q">>
    /\ sections[1].Value = <<"x", NL>>
    /\ sections[2].Name = <<"#", "c">>
    /\ Reconstruct(sections) = text

\* every invocation's actual stdout, stderr and exit code are the expected
AllMatch ==
    \A i \in 1..Len(parts) : parts[i].kind = "run" =>
        /\ parts[i].actualStdout = ToExpectedStdout(parts[i])
        /\ parts[i].actualStderr = parts[i].expectedStderr
        /\ parts[i].actualExitCode = parts[i].expectedExitCode

\* C8 (as stated): if every invocation's actuals equal its expectations,
\* ToActual() of the parsed transcript is the original text, for any order
\* of the stdin:/stderr:/exitcode: blocks and any comment or exitcode body.
C8_RewriteIdempotent ==
    (pstate = "replayed" /\ AllMatch) => ToActual(parts) = text

SubKinds == {"prompt", "exitcode", "stdin", "stderr"}
Rank(kind) ==
    IF kind = "run" THEN 0
    ELSE IF kind = "prompt" THEN 1
    ELSE IF kind = "exitcode" THEN 2
    ELSE IF kind = "stdin" THEN 3
    ELSE 4

\* section i of the transcript is written the way ToActual writes it
SectionCanonical(i) ==
    LET sec == sections[i]
        k == SectionKind(sec.Name)
        code == Atoi(TrimSpace(TrimPrefix(sec.Name, ExitcodePrefix)))
        trimmed == TrimSuffix(sec.Value, <<BSL, NL>>)
        turn == PromptTurn(sec.Name, sec.Value)
    IN /\ k = "comment" => sec.Value = <<>>
       /\ k = "file" => (sec.Name = SectionLines(text)[sec.LineNr] /\ HasSuffix(sec.Name, <<":">>))
       /\ k = "run" =>
              /\ HasSuffix(sec.Value, <<BSL, NL>>) => (trimmed # <<>> /\ ~HasSuffix(trimmed, <<NL>>))
              /\ (i < Len(sections) /\ SectionKind(sections[i + 1].Name) = "prompt") => sec.Value = <<>>
       /\ k = "exitcode" =>
              /\ sec.Value = <<>>
              /\ code # 0
              /\ sec.Name = ExitcodePrefix \o <<SP>> \o FormatInt(code)
       /\ k = "stdin" => (sec.Name = <<"s", "t", "d", "i", "n", ":">> /\ sec.Value # <<>>)
       /\ k = "stderr" => (sec.Name = <<"s", "t", "d", "e", "r", "r", ":">> /\ sec.Value # <<>>)
       /\ k = "prompt" => sec.Name = turn.expectedPrompt \o turn.expr
       /\ k \in SubKinds =>
              /\ i > 1
              /\ LET pk == SectionKind(sections[i - 1].Name)
                 IN /\ pk \in {"run"} \cup SubKinds
                    /\ Rank(pk) < Rank(k) \/ (pk = "prompt" /\ k = "prompt")

\* the transcript is in the form ToActual writes
RewriteCanonical ==
    /\ text = <<>> \/ HasSuffix(text, <<NL>>)
    /\ \A i \in 1..Len(sections) : SectionCanonical(i)

\* C8 (amended): if every invocation's actuals equal its expectations,
\* ToActual() of the parsed transcript is the original text provided the
\* transcript is in the rewriter's own form: it ends in a newline; comment
\* and exitcode sections have no body; a fixture line ends in a colon; an
\* invocation's sections follow its header directly, in the order dialog
\* turns (then with no flat stdout body), exitcode:, stdin:, stderr:, each of
\* the last three at most once; an exitcode line is "exitcode: N" with N a
\* nonzero integer as %d prints it; stdin: and stderr: bodies are not empty;
\* a prompt line has one space after its last ">" and no trailing blanks; a
\* stdout body ends in the continuation marker only after an unfinished line.
C8_RewriteIdempotentCanonical ==
    (pstate = "replayed" /\ AllMatch /\ RewriteCanonical) => ToActual(parts) = text

\* the transcript with a comment, a dialog turn, exitcode:, stdin: and
\* stderr: in the rewriter's order was replayed with matching actuals and
\* is rewritten to the same text
C8_Witness ==
    /\ pstate = "replayed"
    /\ text = FullTranscript
    /\ AllMatch
    /\ RewriteCanonical
    /\ Len(parts) = 2
    /\ parts[2].kind = "run"
    /\ Len(parts[2].readlines) = 1
    /\ parts[2].readlines[1].expectedStdout = <<"x", NL>>
    /\ parts[2].actualExitCode = 1
    /\ parts[2].stdin = <<"x", NL>>
    /\ parts[2].actualStderr = <<"x", NL>>
    /\ ToActual(parts) = text

\* C10: parseCommand returns as env the maximal leading run of tokens that
\* match ^[A-Z_]+= and as args the first token that does not match and all
\* tokens after it, in order; a KEY=VALUE token after a token that does not
\* match stays in args.
C10_LeadingAssignments ==
    pstate = "commandParsed" =>
        LET tokens == shquoteSplit(command)
        IN /\ env \o args = tokens
           /\ \A i \in 1..Len(env) : KvMatch(env[i])
           /\ args # <<>> => ~KvMatch(args[1])
           /\ command = <<"F", "O", "O", "=", "1", " ", "B", "A", "R", "=", "2", " ", "r", "u", "n", " ",
                          "-", "-", "f", "l", "a", "g", " ", "x">> =>
                  /\ env = << <<"F", "O", "O", "=", "1">>, <<"B", "A", "R", "=", "2">> >>
                  /\ args = << <<"r", "u", "n">>, <<"-", "-", "f", "l", "a", "g">>, <<"x">> >>
           /\ command = <<"r", "u", "n", " ", "F", "O", "O", "=", "1">> =>
                  /\ env = <<>>
                  /\ args = << <<"r", "u", "n">>, <<"F", "O", "O", "=", "1">> >>

\* " FOO=1 run BAR=2" was parsed: BAR=2 follows run and stays in args
C10_Witness ==
    /\ pstate = "commandParsed"
    /\ command = <<" ", "F", "O", "O", "=", "1", " ", "r", "u", "n", " ", "B", "A", "R", "=", "2">>
    /\ env = << <<"F", "O", "O", "=", "1">> >>
    /\ args = << <<"r", "u", "n">>, <<"B", "A", "R", "=", "2">> >>

\* ======================================================= dialog claims
RECURSIVE KeySeq(_)
\* the keys of a list of assignments, in order
KeySeq(list) == IF list = <<>> THEN <<>> ELSE <<EnvKey(Head(list))>> \o KeySeq(Tail(list))
\* the assignments of list (with keys ks) that no later one of the same key
\* shadows
LastAssignments(list, ks) ==
    {list[i] : i \in {j \in 1..Len(list) : \A k \in (j + 1)..Len(list) : ks[k] # ks[j]}}
\* the keys the Environ() result e has an entry for
KeysOf(e) == {EnvKey(kv) : kv \in DOMAIN e}
\* the Environ() result e holds the entry K=V
Holds(e, k, v) == (k \o <<"=">> \o v) \in DOMAIN e
\* the turn Readline consumed last
LastTurn == readlines[readlinesPos]
\* the turn the next Readline consumes
NextTurn == readlines[readlinesPos + 1]
\* this step is a Readline call
IsRead == reads' = reads + 1

\* C1 (as stated): an override K=V carried by a consumed turn stays visible
\* in Environ() for the rest of the invocation unless a later consumed turn
\* assigns K again, also after later turns that carry no overrides.
C1_OverridesPersist ==
    LET e == Environ(env, readlineEnv)
    IN \A k \in DOMAIN overridden : Holds(e, k, overridden[k])

\* C1 (amended): the overrides of the most recently consumed turn are
\* visible in Environ(), also through read requests made after the turns are
\* exhausted; consuming a turn replaces the whole turn-level set, so a key
\* assigned only by an earlier turn has no entry any more.
C1_LastTurnOverridesOnly ==
    readlinesPos > 0 =>
        LET e == Environ(env, readlineEnv)
            m == EnvMap(LastTurn.env)
            base == EnvMap(DefaultEnv \o env)
            dropped == DOMAIN overridden \ DOMAIN m
        IN /\ {k \o <<"=">> \o m[k] : k \in DOMAIN m} \subseteq DOMAIN e
           /\ (dropped \ DOMAIN base) \cap KeysOf(e) = {}
           /\ {k \o <<"=">> \o base[k] : k \in dropped \cap DOMAIN base} \subseteq DOMAIN e

\* an earlier turn's override B=1 has been dropped by a later turn without
\* overrides, and a read request has been made after the turns ran out
C1_Witness ==
    /\ readlinesPos >= 2
    /\ reads > readlinesPos
    /\ LastTurn.env = <<>>
    /\ <<"B">> \in DOMAIN overridden
    /\ <<"B">> \notin KeysOf(Environ(env, readlineEnv))

\* C2: the k-th read request made while turns remain consumes the k-th
\* recorded turn; the cursor advances by one per such request, whatever the
\* kind of turn; no turn is skipped or consumed twice.
C2_TurnsReplayedInOrder ==
    /\ readlinesPos <= Len(readlines)
    /\ readlinesPos = (IF reads < Len(readlines) THEN reads ELSE Len(readlines))
    /\ Len(consumed) = readlinesPos
    /\ \A k \in 1..Len(consumed) : consumed[k] = readlines[k]

\* two turns were consumed by two read requests, a completion request and
\* then an end-of-input turn, and a third read request found none left
C2_Witness ==
    /\ Len(readlines) = 2
    /\ reads = 3
    /\ consumed = readlines
    /\ IsCompletionRequest(Unescape(consumed[1].input))
    /\ Unescape(consumed[2].input) = EOFSentinel

\* C3: a read request that finds no turns remaining gets end-of-stream and
\* no line, and leaves no turns remaining: every later read request gets
\* end-of-stream too.
C3_ExhaustedAbsorbing ==
    [][(IsRead /\ readlinesPos >= Len(readlines)) =>
           /\ ret'.err = EOF
           /\ ret'.line = <<>>
           /\ readlinesPos' >= Len(readlines')]_vars

\* two read requests in a row found no turns remaining, after a dialog whose
\* last turn delivered a line
C3_Witness ==
    /\ Len(readlines) >= 1
    /\ reads >= Len(readlines) + 2
    /\ Unescape(readlines[Len(readlines)].input) = <<"x">>
    /\ ret = [line |-> <<>>, err |-> EOF]

\* C4: when the consumed turn's de-escaped input ends in a tab, Readline
\* calls complete once, with the input minus the tab and the length of that
\* text as cursor, appends to stdout (after the prompt) the raw input line
\* and a newline, then each candidate and a newline in returned order, and
\* answers with an empty line and no end-of-stream.
C4_CompletionRequest ==
    [][(IsRead /\ readlinesPos < Len(readlines)
            /\ HasSuffix(Unescape(NextTurn.input), <<TAB>>)) =>
           LET raw == NextTurn.input
               full == Unescape(raw)
               partial == SubSeq(full, 1, Len(full) - 1)
               cands == Complete(lastComplete', partial, Len(partial))
           IN /\ completeCalls' = Append(completeCalls, [line |-> partial, pos |-> Len(partial)])
              /\ raw = <<"f", "o", BSL, "t">> =>
                     completeCalls'[Len(completeCalls')] = [line |-> <<"f", "o">>, pos |-> 2]
              /\ actualStdoutBuf' =
                     actualStdoutBuf \o lastPrompt' \o raw \o <<NL>>
                         \o Concat([i \in 1..Len(cands) |-> cands[i] \o <<NL>>])
              /\ ret' = [line |-> <<>>, err |-> Nil]]_vars

\* the turn  fo\t  was consumed with the completer that returns two
\* candidates: complete was called with ("fo", 2) and both were echoed
C4_Witness ==
    /\ readlinesPos >= 1
    /\ LastTurn.input = <<"f", "o", BSL, "t">>
    /\ wrote = FALSE
    /\ lastComplete = 2
    /\ completeCalls # <<>>
    /\ completeCalls[Len(completeCalls)] = [line |-> <<"f", "o">>, pos |-> 2]
    /\ HasSuffix(actualStdoutBuf, <<"f", "o", BSL, "t", NL, "f", "o", "o", NL, "f", "o", "x", "y", NL>>)
    /\ ret = [line |-> <<>>, err |-> Nil]

\* C5: a consumed turn that is no completion request has its display
\* expression and a newline echoed (after the prompt); if its de-escaped
\* input is ^D the read request gets end-of-stream and no line, otherwise it
\* gets exactly the de-escaped input and no end-of-stream.
C5_EndOfInputOrLine ==
    [][(IsRead /\ readlinesPos < Len(readlines)
            /\ ~HasSuffix(Unescape(NextTurn.input), <<TAB>>)) =>
           /\ actualStdoutBuf' = actualStdoutBuf \o lastPrompt' \o NextTurn.expr \o <<NL>>
           /\ completeCalls' = completeCalls
           /\ IF Unescape(NextTurn.input) = <<"^", "D">>
              THEN ret' = [line |-> <<>>, err |-> EOF]
              ELSE ret' = [line |-> Unescape(NextTurn.input), err |-> Nil]]_vars

\* a ^D turn was consumed: end-of-stream, its expression echoed; an earlier
\* turn delivered its line
C5_Witness ==
    /\ readlinesPos >= 2
    /\ reads = readlinesPos
    /\ wrote = FALSE
    /\ LastTurn.input = <<"^", "D">>
    /\ ret = [line |-> <<>>, err |-> EOF]
    /\ HasSuffix(actualStdoutBuf, <<"a", ">", " ", "^", "D", NL>>)
    /\ Unescape(readlines[1].input) = <<"x">>

\* C9: Environ() has exactly one entry per key; every fixed default key is
\* present; the value of a key is its last assignment in the order
\* defaults, invocation-level assignments, turn-level assignments in effect
\* (tcr.readlineEnv); the turn-level assignments remove no key the defaults
\* or the invocation assign.
C9_EnvironMerge ==
    LET e == Environ(env, readlineEnv)
        all == DefaultEnv \o env \o readlineEnv
    IN /\ \A kv \in DOMAIN e : e[kv] = 1
       /\ Cardinality(KeysOf(e)) = Cardinality(DOMAIN e)
       /\ DOMAIN e = LastAssignments(all, KeySeq(all))
       /\ {EnvKey(DefaultEnv[i]) : i \in 1..Len(DefaultEnv)} \subseteq KeysOf(e)
       /\ {EnvKey(env[i]) : i \in 1..Len(env)} \subseteq KeysOf(e)

\* the invocation assigns NO_COLOR=0 and A twice, the turn in effect assigns
\* A again and B: Environ() has NO_COLOR=0, A=2, B=1 and the other defaults
C9_Witness ==
    /\ readlineEnv = << <<"A", "=", "2">>, <<"B", "=", "1">> >>
    /\ Len(env) = 3
    /\ LET e == Environ(env, readlineEnv)
       IN /\ Holds(e, <<"N", "O", "_", "C", "O", "L", "O", "R">>, <<"0">>)
          /\ Holds(e, <<"A">>, <<"2">>)
          /\ Holds(e, <<"B">>, <<"1">>)
          /\ Cardinality(DOMAIN e) = 9

\* ================================================ parser claims, continued
\* a header of none of the shapes parseTestCases knows: no comment, fixture
\* path, invocation, exitcode:, stdin:, stderr: or dialog prompt
Unrecognised(n) ==
    /\ \A p \in { <<"#">>, <<"/">>, <<"$">>, ExitcodePrefix,
                   <<"s", "t", "d", "i", "n">>, <<"s", "t", "d", "e", "r", "r">> } : ~HasPrefix(n, p)
    /\ \A i \in 1..Len(n) : n[i] # ">"

\* C11: a section whose header has none of the recognised shapes, the
\* empty header of a first line that is no boundary line included, makes
\* parseTestCases panic when the loop reaches it: it is not skipped, and no
\* transcript with such a section is ever returned.
C11_UnrecognisedSectionAborts ==
    [][ /\ (pstate = "parsing" /\ secIdx < Len(sections) /\ Unrecognised(sections[secIdx + 1].Name))
            => (pstate' = "panic" /\ parts' = parts)
        /\ pstate' \in {"parsed", "replayed"}
            => \A i \in 1..Len(sections') : ~Unrecognised(sections'[i].Name)
        /\ pstate = "panic" => pstate' = "panic" ]_vars

\* the first line "x" is no boundary line: its section has the empty
\* header, and the loop panicked on it
C11_Witness ==
    /\ pstate = "panic"
    /\ secIdx = 1
    /\ sections[1].Name = <<>>
    /\ Unrecognised(sections[1].Name)
    /\ SectionLines(text)[1] = <<"x">>
    /\ Len(sections) = 2

IsRun(p) == p.kind = "run"

\* the indexes of the invocation headers among the sections, in order
RunHeaders(secs) ==
    LET idx == {i \in 1..Len(secs) : SectionKind(secs[i].Name) = "run"}
    IN [k \in 1..Cardinality(idx) |-> CHOOSE i \in idx : Cardinality({j \in idx : j < i}) = k - 1]

\* the sections of kind between header h and the next header, in order
Attached(secs, h, kind) ==
    LET later == {i \in (h + 1)..Len(secs) : SectionKind(secs[i].Name) = "run"}
        hi == IF later = {} THEN Len(secs) + 1 ELSE CHOOSE i \in later : \A j \in later : i <= j
        idx == {i \in (h + 1)..(hi - 1) : SectionKind(secs[i].Name) = kind}
    IN [k \in 1..Cardinality(idx) |->
            secs[CHOOSE i \in idx : Cardinality({j \in idx : j < i}) = k - 1]]

\* the body of the last section of the sequence, nothing if there is none
LastValue(secs) == IF secs = <<>> THEN <<>> ELSE secs[Len(secs)].Value

\* the invocation r is the one started by header h, with the stdin:,
\* stderr:, exitcode: and prompt sections up to the next header and no other
OwnsItsSections(r, h) ==
    LET turns == Attached(sections, h, "prompt")
        codes == Attached(sections, h, "exitcode")
    IN /\ r.lineNr = sections[h].LineNr
       /\ r.command = TrimPrefix(sections[h].Name, <<"$">>)
       /\ r.stdin = LastValue(Attached(sections, h, "stdin"))
       /\ r.expectedStderr = LastValue(Attached(sections, h, "stderr"))
       /\ r.expectedExitCode =
              (IF codes = <<>> THEN 0
               ELSE Atoi(TrimSpace(TrimPrefix(codes[Len(codes)].Name, ExitcodePrefix))))
       /\ Len(r.readlines) = Len(turns)
       /\ \A m \in 1..Len(turns) : r.readlines[m] = PromptTurn(turns[m].Name, turns[m].Value)

IsSubSection(n) == SectionKind(n) \in {"exitcode", "stdin", "stderr", "prompt"}

\* C18: while the sections are consumed there is at most one current
\* invocation; a stdin:, stderr:, exitcode: or prompt section changes the
\* current invocation only and leaves parts alone, or, when no invocation
\* was started yet, makes parseTestCases panic; in the transcript returned
\* the invocations are the invocation headers, once each and in their
\* order, each with exactly the sections between its header and the next.
C18_OneCurrentInvocation ==
    [][ /\ Len(currentTestRun') <= 1
        /\ (pstate = "parsing" /\ secIdx < Len(sections) /\ IsSubSection(sections[secIdx + 1].Name))
            => IF currentTestRun = NoRun
               THEN pstate' = "panic" /\ parts' = parts
               ELSE /\ pstate' = "parsing"
                    /\ parts' = parts
                    /\ currentTestRun' # NoRun
                    /\ currentTestRun'[1].lineNr = currentTestRun[1].lineNr
        /\ (pstate = "parsing" /\ pstate' = "parsed")
            => LET runs == SelectSeq(parts', IsRun)
                   heads == RunHeaders(sections')
               IN /\ Len(runs) = Len(heads)
                  /\ \A k \in 1..Len(runs) : OwnsItsSections(runs[k], heads[k]) ]_vars

\* two invocations were parsed, the first with two dialog turns and the
\* second, after a comment, with one
C18_Witness ==
    /\ pstate = "parsed"
    /\ Len(parts) = 3
    /\ parts[1].kind = "comment"
    /\ parts[2].kind = "run" /\ parts[2].lineNr = 1 /\ Len(parts[2].readlines) = 2
    /\ parts[3].kind = "run" /\ parts[3].lineNr = 6 /\ Len(parts[3].readlines) = 1
    /\ OwnsItsSections(parts[2], 1)
    /\ OwnsItsSections(parts[3], 5)

\* ================================================ dialog claims, continued
\* this step is a Readline call made when no turns remain
IsExhaustedRead == IsRead /\ readlinesPos >= Len(readlines)

\* C16 (as stated): a read request made when no turns remain signals
\* end-of-stream and leaves captured stdout, the turn cursor and the
\* turn-level environment unchanged.
C16_ExhaustedReadLeavesStdout ==
    [][IsExhaustedRead =>
           /\ ret'.err = EOF
           /\ actualStdoutBuf' = actualStdoutBuf
           /\ readlinesPos' = readlinesPos
           /\ readlineEnv' = readlineEnv]_vars

\* C16 (amended): every read request first appends its prompt text to
\* captured stdout; one made when no turns remain signals end-of-stream,
\* leaves the turn cursor and the turn-level environment unchanged and
\* appends the prompt text and nothing else to captured stdout.
C16_ExhaustedReadEchoesPrompt ==
    [][/\ IsRead => HasPrefix(actualStdoutBuf', actualStdoutBuf \o lastPrompt')
       /\ IsExhaustedRead =>
              /\ ret' = [line |-> <<>>, err |-> EOF]
              /\ actualStdoutBuf' = actualStdoutBuf \o lastPrompt'
              /\ readlinesPos' = readlinesPos
              /\ readlineEnv' = readlineEnv
              /\ readlines' = readlines]_vars

\* the one turn "a> A=2 B=1 x" was consumed and the next read request found
\* none left: stdout ends in a second prompt, the overrides are still set
C16_Witness ==
    /\ Len(readlines) = 1
    /\ readlinesPos = 1
    /\ reads = 2
    /\ ~wrote
    /\ ret = [line |-> <<>>, err |-> EOF]
    /\ lastPrompt = <<"a", ">", " ">>
    /\ readlineEnv = << <<"A", "=", "2">>, <<"B", "=", "1">> >>
    /\ actualStdoutBuf = <<"a", ">", " ">> \o readlines[1].expr \o <<NL>> \o <<"a", ">", " ">>

\* C17 (as stated): for every consumed turn, of any kind and with or without
\* leading overrides, the line Readline appends to captured stdout after
\* the prompt is the turn's display expression and a newline, the line
\* ToExpectedStdout uses.
C17_EchoIsDisplayExpression ==
    [][(IsRead /\ readlinesPos < Len(readlines)) =>
           HasPrefix(actualStdoutBuf',
                     actualStdoutBuf \o lastPrompt' \o NextTurn.expr \o <<NL>>)]_vars

\* ======================================================= replay claims
\* q.Main of the invocation on line lineNr has returned
Returned(lineNr) == \E k \in 1..Len(replayLog) : replayLog[k] = [ev |-> "return", lineNr |-> lineNr]

\* each turn's expected prompt, display expression, a newline and expected
\* output, over the turns in order; the flat body when there are no turns
TurnsOrFlat(p) ==
    IF Len(p.readlines) >= 1
    THEN Concat([i \in 1..Len(p.readlines) |->
                    p.readlines[i].expectedPrompt \o p.readlines[i].expr \o <<NL>>
                        \o p.readlines[i].expectedStdout])
    ELSE p.expectedStdout

\* C12: in verify mode the stdout of a replayed invocation is compared with
\* the concatenation over its turns, in order, of expected prompt, display
\* expression, newline and expected output when it has turns (its flat
\* stdout body is not used) and with the flat body when it has none: a
\* stdout mismatch naming that expectation is reported exactly when the
\* captured stdout differs from it.
C12_ExpectedStdoutFromTurns ==
    \A i \in 1..Len(parts) :
        (parts[i].kind = "run" /\ Returned(parts[i].lineNr) /\ ~writeActual) =>
            LET p == parts[i]
                reps == {k \in 1..Len(reported) :
                            reported[k].lineNr = p.lineNr /\ reported[k].field = "stdout"}
            IN IF p.actualStdout = TurnsOrFlat(p)
               THEN reps = {}
               ELSE /\ Cardinality(reps) = 1
                    /\ \A k \in reps : /\ reported[k].expected = TurnsOrFlat(p)
                                       /\ reported[k].actual = p.actualStdout

\* "$ fq" with the body "x" and the turn "a> x": the tool printed the flat
\* body and the mismatch reported expects the turn's prompt and expression
C12_Witness ==
    /\ ~writeActual
    /\ Len(parts) = 1
    /\ parts[1].kind = "run"
    /\ Returned(1)
    /\ parts[1].expectedStdout = <<"x", NL>>
    /\ Len(parts[1].readlines) = 1
    /\ parts[1].actualStdout = <<"x", NL>>
    /\ reported = << [lineNr |-> 1, field |-> "stdout",
                      expected |-> <<"a", ">", " ", "x", NL>>, actual |-> <<"x", NL>>] >>

\* C13: the invocations of a transcript are replayed one at a time and in
\* file order: a q.Main call returns before the next one is made, and when
\* the invocation on line b is started nothing of an invocation on a smaller
\* line a is still to come, whatever comments and fixtures lie between.
C13_ReplayInFileOrder ==
    /\ running <=> Len(replayLog) % 2 = 1
    /\ \A k \in 1..Len(replayLog) :
           /\ replayLog[k].ev = (IF k % 2 = 1 THEN "start" ELSE "return")
           /\ k % 2 = 0 => replayLog[k].lineNr = replayLog[k - 1].lineNr
           /\ \E i \in 1..Len(parts) : parts[i].kind = "run" /\ parts[i].lineNr = replayLog[k].lineNr
    /\ \A k, m \in 1..Len(replayLog) :
           (replayLog[k].ev = "start" /\ m > k /\ replayLog[m].ev = "start")
               => replayLog[k].lineNr < replayLog[m].lineNr

\* "$ fq", "#c", "$ fq": parts holds the comment first; the invocation on
\* line 1 was run and returned, then the one on line 3
C13_Witness ==
    /\ pstate = "replayed"
    /\ Len(parts) = 3
    /\ parts[1].kind = "comment" /\ parts[1].lineNr = 2
    /\ replayLog = << [ev |-> "start", lineNr |-> 1], [ev |-> "return", lineNr |-> 1],
                      [ev |-> "start", lineNr |-> 3], [ev |-> "return", lineNr |-> 3] >>

\* the fixtures of the transcript named name, by position in parts
FixturesNamed(name) == {i \in 1..Len(parts) : parts[i].kind = "file" /\ parts[i].name = name}

\* C14 (as stated): a lookup of name N during a replay resolves to a
\* fixture if and only if the transcript has a fixture named N, fails with
\* file-not-found when it has none, and never goes to the real filesystem.
C14_LookupIffFixture ==
    lastOpen # <<>> =>
        LET o == lastOpen[1]
        IN /\ o.result.kind = "fixture" <=> FixturesNamed(o.name) # {}
           /\ FixturesNamed(o.name) = {} => o.result.kind = "notfound"
           /\ o.result.kind # "realfile"

\* C14 (amended): a lookup of name N during the replay of any invocation,
\* before or after the fixture in the file, gives the data of the first
\* fixture named N when that fixture has data, goes to the real file of
\* that name next to the transcript when that fixture has no data, and
\* fails with file-not-found, the replay going on, when no fixture is named
\* N.
C14_LookupFirstFixtureOrRealFile ==
    lastOpen # <<>> =>
        LET o == lastOpen[1]
            named == FixturesNamed(o.name)
            first == CHOOSE i \in named : \A j \in named : i <= j
        IN /\ pstate \in {"parsed", "replayed", "done"}
           /\ named = {} => o.result = [kind |-> "notfound"]
           /\ (named # {} /\ parts[first].data # <<>>)
                  => o.result = [kind |-> "fixture", data |-> parts[first].data]
           /\ (named # {} /\ parts[first].data = <<>>)
                  => o.result = [kind |-> "realfile", name |-> o.name]

\* "/a:" with the data "x", then "$ fq": the invocation looked /a up and got
\* the fixture's data, and its replay went on to return
C14_Witness ==
    /\ pstate = "replayed"
    /\ Len(parts) = 2
    /\ parts[1].kind = "file" /\ parts[1].name = <<"/", "a">> /\ parts[1].data = <<"x", NL>>
    /\ parts[2].kind = "run" /\ parts[2].lineNr = 3
    /\ Returned(3)
    /\ lastOpen = << [name |-> <<"/", "a">>, lineNr |-> 3,
                      result |-> [kind |-> "fixture", data |-> <<"x", NL>>]] >>

\* C15: the transcript is written only with writeActual set and after at
\* least one of its invocations has been run, and then with ToActual(); in
\* verify mode nothing is written, and with writeActual set no comparison
\* is reported.
C15_RewriteOnlyWhenReplayed ==
    /\ written # <<>> =>
           /\ writeActual
           /\ \E k \in 1..Len(replayLog) : replayLog[k].ev = "return"
           /\ written = <<ToActual(parts)>>
    /\ ~writeActual => written = <<>>
    /\ writeActual => reported = <<>>

\* with writeActual set, an invocation expecting "x" printed "?": nothing
\* was reported and the transcript was written with the new output
C15_Witness ==
    /\ pstate = "done"
    /\ writeActual
    /\ text = <<"$", " ", "f", "q", NL, "x", NL>>
    /\ parts[1].actualStdout = <<"?", NL>>
    /\ reported = <<>>
    /\ written = << <<"$", " ", "f", "q", NL, "?", NL, "e", "x", "i", "t", "c", "o", "d", "e", ":", " ", "2", NL>> >>

====
